---- MODULE Spec2Model ----
(***************************************************************************)
(* The run loop of egui_winit_wgpu_integrator (src/src/lib.rs): the event  *)
(* handler closure handed to winit's event_loop.run, the redraw closure    *)
(* it calls, and WgpuRepaintSignal::request_repaint, which other threads   *)
(* call to wake the loop.                                                  *)
(*                                                                         *)
(* The loop thread's position is pc.  One iteration of the native event    *)
(* cycle is NewEvents, the queued events, MainEventsCleared,               *)
(* RedrawRequested, RedrawEventsCleared.  The redraw closure is stepped    *)
(* through its three blocking points (acquisition, the application's       *)
(* update, the submit and directive), so that calls of request_repaint     *)
(* from other threads interleave with a tick.                              *)
(***************************************************************************)
EXTENDS Naturals, Sequences, FiniteSets

\* Bounds of the model.
MaxQueue == 1
MaxWakes == 2
NumThreads == 2
MaxFrameTime == 2
MaxReadings == 3

\* lib.rs 175: the factor 1e-9, one nanosecond in seconds, as its inverse.
NanosPerSecond == 1000000000
\* lib.rs 174: the length in seconds of the day a time of day counts within.
SecondsPerDay == 86400

Threads == 1..NumThreads
FrameTimes == 1..MaxFrameTime
Sizes == {<<800, 600>>, <<1024, 768>>}
\* lib.rs 50: window.inner_size() of the new window.
InitialSize == <<800, 600>>

\* Option<T>: None is the empty sequence, Some(x) the one-element sequence.
None == <<>>
Some(x) == <<x>>

VARIABLES
    windows,              \* cfg!(windows)
    pc,                   \* position of the loop thread
    control_flow,         \* *control_flow
    queue,                \* native events received and not yet dispatched
    user_events,          \* RequestRepaintEvents sent through the proxy, not yet dispatched
    redraw_pending,       \* window.request_redraw() called, RedrawRequested not yet emitted
    sc_desc,              \* the SwapChainDescriptor
    swap_chain,           \* the descriptor the current swap chain was created with
    previous_frame_time,  \* Option<f32>
    output_frames,        \* SwapChainFrames acquired and not yet released
    clock,                \* the wall clock and the readings taken of it
    mutex,                \* holder of the WgpuRepaintSignal mutex, 0 when free
    tpc,                  \* position of each thread in request_repaint
    \* history variables
    effects,              \* event handled last and the calls its handler made, in order
    tick,                 \* record of the tick of the current iteration
    last_measured,        \* frame time measured by the last completed tick
    last_drops,           \* dropped ticks since the last completed tick (saturating)
    handled_size,         \* size of the last handled Resized event, else the initial size
    send_failed,          \* a send_event has returned Err
    iter,                 \* record of the current iteration of the event cycle
    tick_since_send       \* a tick has begun since the last successful send_event

vars == <<windows, clock, output_frames, pc, control_flow, queue, user_events,
          redraw_pending, sc_desc, swap_chain, previous_frame_time, mutex, tpc, effects, tick,
          last_measured, last_drops, handled_size, send_failed, iter,
          tick_since_send>>

\* What no step of the loop, of a thread or of the windowing system changes outside
\* the redraw closure's acquisition and submit.
fixed == <<windows, clock, output_frames>>
program == <<control_flow, sc_desc, swap_chain, previous_frame_time>>
channels == <<queue, user_events>>
threads == <<mutex, tpc>>
loop_history == <<effects, tick, last_measured, last_drops, handled_size, iter>>
history == <<loop_history, send_failed, tick_since_send>>

----------------------------------------------------------------------------
\* Events of the windowing system.

Resized(size) == [type |-> "Resized", size |-> size]
OtherEvent == [type |-> "Other"]

\* The loop exists until LoopDestroyed has been delivered.
Alive == pc # "Terminated"

InCall == {t \in Threads : tpc[t] # "idle"}
Room == Len(queue) < MaxQueue
WakeRoom == user_events + Cardinality(InCall) < MaxWakes

----------------------------------------------------------------------------
\* The code of the handlers, as functions of the values they read.

Has(seq, x) == \E i \in 1..Len(seq) : seq[i] = x

\* lib.rs 51-57: the descriptor built at startup.
InitialDescriptor(size) ==
    [usage |-> "RENDER_ATTACHMENT", format |-> "Rgba8UnormSrgb",
     width |-> size[1], height |-> size[2], present_mode |-> "Mailbox"]

\* As ResizedDescriptor, had the arm built the descriptor anew with the default
\* present mode.
ResizedDescriptorFifo(desc, size) ==
    [desc EXCEPT !.width = size[1], !.height = size[2], !.present_mode = "Fifo"]

\* lib.rs 159-160: the Resized arm's update of the descriptor.
ResizedDescriptor(desc, size) ==
    [desc EXCEPT !.width = size[1], !.height = size[2]]

\* lib.rs 58, 161: device.create_swap_chain(&surface, &sc_desc).
CreateSwapChain(desc) == desc

\* As CpuUsage, had the frame time been stored before the frame was built.
CpuUsageSameTick(previous, frame_time) == Some(frame_time)

\* lib.rs 95: the cpu_usage put into IntegrationInfo.
CpuUsage(previous, frame_time) == previous

\* lib.rs 109-110: previous_frame_time after the application's update.
MeasuredFrameTime(previous, frame_time) == Some(frame_time)

\* As DroppedFrameTime, had the error arm cleared the stored frame time.
DroppedFrameTimeCleared(previous) == None

\* lib.rs 83-86: previous_frame_time after a dropped frame.
DroppedFrameTime(previous) == previous

\* As Directive, with the needs_repaint test before the quit test.
DirectiveRepaintFirst(quit, needs_repaint) ==
    IF needs_repaint THEN "Poll" ELSE IF quit THEN "Exit" ELSE "Wait"

\* As Directive, without the quit test.
DirectiveIgnoresQuit(quit, needs_repaint) ==
    IF needs_repaint THEN "Poll" ELSE "Wait"

\* lib.rs 141-148: the value assigned to *control_flow.
Directive(quit, needs_repaint) ==
    IF quit THEN "Exit" ELSE IF needs_repaint THEN "Poll" ELSE "Wait"

\* As TickRequestsRedraw, without the call in the needs_repaint branch.
TickRequestsNoRedraw(quit, needs_repaint) == FALSE

\* As TickRequestsRedraw, with the call made in the Wait branch too.
TickRequestsRedrawUnlessQuit(quit, needs_repaint) == ~quit

\* lib.rs 143-144: window.request_redraw() in the needs_repaint branch.
TickRequestsRedraw(quit, needs_repaint) == ~quit /\ needs_repaint

\* As TickSetsInnerSize, without the call.
TickNeverSetsInnerSize(window_size) == FALSE

\* lib.rs 132-140: window.set_inner_size is called for Some(window_size).
TickSetsInnerSize(window_size) == window_size # None

\* As SendEvent, had the event been queued whether or not the loop exists.
SendEventAlways(sent, alive) == sent + 1

\* lib.rs 19: send_event on the proxy; Err(EventLoopClosed) once the loop is gone.
SendEvent(sent, alive) == IF alive THEN sent + 1 ELSE sent
SendEventResult(alive) == IF alive THEN "Ok" ELSE "Err"

\* lib.rs 19: .ok() discards the result, so request_repaint returns in either case.
AfterSend(result) == "idle"

\* As GuardDropped, had the guard outlived the call.
GuardKept(holder) == holder

\* lib.rs 19: the MutexGuard is a temporary, dropped at the end of the statement.
GuardDropped(holder) == 0

\* As ResizedSwapChain, had the arm only updated the descriptor.
ResizedSwapChainKept(old, desc) == old

\* lib.rs 161: the Resized arm replaces the swap chain by one made from the descriptor.
ResizedSwapChain(old, desc) == CreateSwapChain(desc)
ResizedCalls == <<"create_swap_chain">>

\* As RedrawOnRequested, without the cfg! guard.
RedrawOnRequestedAlways(is_windows) == TRUE

\* lib.rs 154: the guard of the RedrawRequested arm.
RedrawOnRequested(is_windows) == ~is_windows

\* As RedrawOnCleared, without the cfg! guard.
RedrawOnClearedAlways(is_windows) == TRUE

\* lib.rs 153: the guard of the RedrawEventsCleared arm.
RedrawOnCleared(is_windows) == is_windows

\* As WakeRequestsRedraw, had the arm only forwarded the event.
WakeRequestsNoRedraw == FALSE

\* lib.rs 165-166: the calls of the MainEventsCleared | UserEvent arm.
WakeRequestsRedraw == TRUE
WakeCalls ==
    <<"handle_event">> \o (IF WakeRequestsRedraw THEN <<"request_redraw">> ELSE <<>>)

\* As Forwards, had platform.handle_event been called on every event.
ForwardsAll(event_type) == TRUE

\* lib.rs 152-169: platform.handle_event(&event) is called in the MainEventsCleared |
\* UserEvent arm and in no other.
Forwards(event_type) == event_type \in {"MainEventsCleared", "UserEvent"}
ForwardCalls(event_type) ==
    IF Forwards(event_type) THEN <<"handle_event">> ELSE <<>>

\* As DroppedCalls, had the error arm asked for another redraw.
DroppedCallsWithRedraw == <<"eprintln", "request_redraw">>

\* lib.rs 84-85: the calls of the error arm of get_current_frame.
DroppedCalls == <<"eprintln">>

\* As SubmitCalls, had a tick that observed quit returned before the submit.
SubmitCallsUnlessQuit(quit, needs_repaint, window_size) ==
    IF quit
    THEN <<"control_flow">>
    ELSE <<"submit">>
         \o (IF TickSetsInnerSize(window_size) THEN <<"set_inner_size">> ELSE <<>>)
         \o (IF TickRequestsRedraw(quit, needs_repaint) THEN <<"request_redraw">> ELSE <<>>)
         \o <<"control_flow">>

\* lib.rs 129-148: the calls of the redraw closure from the submit on, in order.
SubmitCalls(quit, needs_repaint, window_size) ==
    <<"submit">>
    \o (IF TickSetsInnerSize(window_size) THEN <<"set_inner_size">> ELSE <<>>)
    \o (IF TickRequestsRedraw(quit, needs_repaint) THEN <<"request_redraw">> ELSE <<>>)
    \o <<"control_flow">>

\* As FrameReleased, had the frame outlived the closure.
FrameKept(frames) == frames

\* lib.rs 81, 150: output_frame is a local of the redraw closure, dropped (and with
\* that presented) when the closure returns after the submit.
FrameReleased(frames) == frames - 1

----------------------------------------------------------------------------
\* seconds_since_midnight, lib.rs 172-176.  A time of day is chrono's NaiveTime: whole
\* seconds since midnight and the nanoseconds of the second under way.  An f64 is
\* written here in fixed point, as whole seconds and billionths of a second: between
\* 0 and 86400 two neighbouring f64 values are at most 2^-36 s apart, less than the
\* billionth the readings are told apart by.

NaiveTime(secs, frac) == [secs |-> secs, frac |-> frac]

\* time.num_seconds_from_midnight() as f64
NumSecondsFromMidnight(time) == [whole |-> time.secs, nanos |-> 0]

\* 1e-9 * (time.nanosecond() as f64)
NanosecondAsSeconds(time) ==
    [whole |-> time.frac \div NanosPerSecond, nanos |-> time.frac % NanosPerSecond]

\* a + b of two f64 values
Plus(a, b) ==
    [whole |-> a.whole + b.whole + (a.nanos + b.nanos) \div NanosPerSecond,
     nanos |-> (a.nanos + b.nanos) % NanosPerSecond]

\* a <= b of two f64 values
LessEq(a, b) == a.whole < b.whole \/ (a.whole = b.whole /\ a.nanos <= b.nanos)

\* As SecondsSinceMidnight, with the second of the minute (time.second()) for the
\* seconds since midnight.
SecondOfMinutePlusNanos(time) ==
    Plus([whole |-> time.secs % 60, nanos |-> 0], NanosecondAsSeconds(time))

\* lib.rs 175
SecondsSinceMidnight(time) ==
    Plus(NumSecondsFromMidnight(time), NanosecondAsSeconds(time))

\* lib.rs 174: chrono::Local::now().time(), d nanoseconds after it was `time`; the
\* time of day starts again from 0 at midnight.
Later(time, d) ==
    LET frac == time.frac + d
        secs == time.secs + frac \div NanosPerSecond
    IN  NaiveTime(secs % SecondsPerDay, frac % NanosPerSecond)

\* The times of day the first reading is taken at, and the time that passes between
\* one reading and the next (under a second, in nanoseconds).
StartTimes ==
    {NaiveTime(secs, frac) : secs \in {0, 43200, SecondsPerDay - 2, SecondsPerDay - 1},
                             frac \in {0, 500000000, NanosPerSecond - 1}}
Elapsed == {1, 500000000, NanosPerSecond - 1}

\* The clock at the first call of seconds_since_midnight.
FirstReading(time) ==
    [time |-> time, reading |-> SecondsSinceMidnight(time), previous |-> None,
     midnight_passed |-> FALSE, readings |-> 1]

----------------------------------------------------------------------------
NoTick ==
    [stage |-> "none", event |-> "none", cf_start |-> "Poll", measured_before |-> None, drops_before |-> 0,
     cpu_usage |-> None, frame_time |-> None, quit |-> FALSE, needs_repaint |-> FALSE,
     window_size |-> None, directive |-> None]

\* ticks: ticks begun in the iteration, saturating at 2; lone_wake: the iteration
\* began from a wait under Wait with one wake and nothing else.
NoIteration == [ticks |-> 0, lone_wake |-> FALSE]

\* The state after run's setup, lib.rs 24-73.
LoopInit ==
    /\ windows \in BOOLEAN
    /\ output_frames = 0
    /\ pc = "Idle"
    /\ control_flow = "Poll"
    /\ queue = <<>>
    /\ user_events = 0
    /\ redraw_pending = FALSE
    /\ sc_desc = InitialDescriptor(InitialSize)
    /\ swap_chain = CreateSwapChain(InitialDescriptor(InitialSize))
    /\ handled_size = InitialSize
    /\ send_failed = FALSE
    /\ previous_frame_time = None
    /\ mutex = 0
    /\ tpc = [t \in Threads |-> "idle"]
    /\ effects = <<>>
    /\ tick = NoTick
    /\ last_measured = None
    /\ last_drops = 0
    /\ iter = NoIteration
    /\ tick_since_send = TRUE

Midnight == NaiveTime(0, 0)

\* Spec follows the loop and not the time of day: the clock stays at its first reading.
Init == LoopInit /\ clock = FirstReading(Midnight)

----------------------------------------------------------------------------
\* WgpuRepaintSignal::request_repaint, lib.rs 18-20, called by thread t.  The signal
\* is also handed to the application (lib.rs 103); a call it makes from within update
\* is a call made while pc = "tick_update", which these actions cover.

RequestRepaintCall(t) ==
    /\ tpc[t] = "idle"
    /\ ~Alive \/ WakeRoom
    /\ tpc' = [tpc EXCEPT ![t] = "lock"]
    /\ UNCHANGED <<fixed, pc, program, channels, redraw_pending, mutex, history>>

\* self.0.lock().unwrap()
RequestRepaintLock(t) ==
    /\ tpc[t] = "lock"
    /\ mutex = 0
    /\ mutex' = t
    /\ tpc' = [tpc EXCEPT ![t] = "send"]
    /\ UNCHANGED <<fixed, pc, program, channels, redraw_pending, history>>

\* .send_event(RequestRepaintEvent).ok(); the guard is dropped and the call returns.
RequestRepaintSend(t) ==
    /\ tpc[t] = "send"
    /\ mutex = t
    /\ user_events' = SendEvent(user_events, Alive)
    /\ tick_since_send' = IF user_events' # user_events THEN FALSE ELSE tick_since_send
    /\ send_failed' = (send_failed \/ SendEventResult(Alive) = "Err")
    /\ mutex' = GuardDropped(t)
    /\ tpc' = [tpc EXCEPT ![t] = AfterSend(SendEventResult(Alive))]
    /\ UNCHANGED <<fixed, pc, program, queue, redraw_pending, loop_history>>

----------------------------------------------------------------------------
\* The windowing system posts native events.  The loop thread receives them when it
\* pumps the system's queue: while it waits under Wait and while it dispatches.  What
\* happens during the redraw is received at the next pump; under Poll the loop does
\* not wait; after Exit it pumps no more.
Pumping == pc = "Events" \/ (pc = "Idle" /\ control_flow = "Wait")

NativeResized(size) ==
    /\ Pumping
    /\ Room
    /\ queue' = Append(queue, Resized(size))
    /\ UNCHANGED <<fixed, pc, program, user_events, redraw_pending, threads, history>>

NativeOther ==
    /\ Pumping
    /\ Room
    /\ queue' = Append(queue, OtherEvent)
    /\ UNCHANGED <<fixed, pc, program, user_events, redraw_pending, threads, history>>

----------------------------------------------------------------------------
\* The handler closure, lib.rs 77-170, one action per delivered event.

Min(a, b) == IF a < b THEN a ELSE b

\* Where the loop goes when the redraw closure returns: to the event that follows
\* the one whose arm called it.
AfterTick == IF tick.event = "RedrawRequested" THEN "RedrawEventsCleared" ELSE "Idle"

\* The loop leaves its wait: at once under Poll, on an event or a requested redraw
\* under Wait.  NewEvents falls to the `_ => ()` arm.
NewEvents ==
    /\ pc = "Idle"
    /\ control_flow # "Exit"
    /\ control_flow = "Poll" \/ queue # <<>> \/ user_events > 0 \/ redraw_pending
    /\ pc' = "Events"
    /\ effects' = <<"NewEvents">>
    /\ iter' = [ticks |-> 0,
                lone_wake |-> /\ control_flow = "Wait"
                              /\ queue = <<>>
                              /\ user_events = 1
                              /\ ~redraw_pending]
    /\ tick' = NoTick
    /\ UNCHANGED <<fixed, program, channels, redraw_pending, threads,
                   last_measured, last_drops, handled_size, send_failed,
                   tick_since_send>>

\* lib.rs 155-162
HandleResized ==
    /\ pc = "Events"
    /\ queue # <<>>
    /\ Head(queue).type = "Resized"
    /\ sc_desc' = ResizedDescriptor(sc_desc, Head(queue).size)
    /\ swap_chain' = ResizedSwapChain(swap_chain, sc_desc')
    /\ effects' = <<"Resized">> \o ForwardCalls("Resized") \o ResizedCalls
    /\ handled_size' = Head(queue).size
    /\ queue' = Tail(queue)
    /\ UNCHANGED <<fixed, pc, control_flow, previous_frame_time, user_events,
                   redraw_pending, threads, tick, last_measured, last_drops, iter,
                   send_failed, tick_since_send>>

\* lib.rs 163-167, the UserEvent alternative
HandleUserEvent ==
    /\ pc = "Events"
    /\ user_events > 0
    /\ user_events' = user_events - 1
    /\ redraw_pending' = (redraw_pending \/ WakeRequestsRedraw)
    /\ effects' = <<"UserEvent">> \o WakeCalls
    /\ UNCHANGED <<fixed, pc, program, queue, threads, tick, last_measured,
                   last_drops, handled_size, iter, send_failed, tick_since_send>>

\* lib.rs 168: every other WindowEvent or DeviceEvent
HandleOther ==
    /\ pc = "Events"
    /\ queue # <<>>
    /\ Head(queue).type = "Other"
    /\ queue' = Tail(queue)
    /\ effects' = <<"Other">> \o ForwardCalls("Other")
    /\ UNCHANGED <<fixed, pc, program, user_events, redraw_pending, threads, tick,
                   last_measured, last_drops, handled_size, iter, send_failed,
                   tick_since_send>>

\* lib.rs 163-167, the MainEventsCleared alternative: both queues have been drained.
MainEventsCleared ==
    /\ pc = "Events"
    /\ queue = <<>>
    /\ user_events = 0
    /\ redraw_pending' = (redraw_pending \/ WakeRequestsRedraw)
    /\ effects' = <<"MainEventsCleared">> \o WakeCalls
    /\ pc' = "RedrawRequested"
    /\ UNCHANGED <<fixed, program, channels, threads, tick, last_measured,
                   last_drops, handled_size, iter, send_failed, tick_since_send>>

\* lib.rs 78-79: the redraw closure is entered and the platform's time advanced.
TickBegin(event) ==
    /\ pc' = "tick_acquire"
    /\ effects' = <<event, "update_time">>
    /\ tick' = [NoTick EXCEPT !.stage = "acquire", !.event = event,
                              !.cf_start = control_flow,
                              !.measured_before = last_measured,
                              !.drops_before = last_drops]
    /\ iter' = [iter EXCEPT !.ticks = Min(@ + 1, 2)]
    /\ tick_since_send' = TRUE
    /\ UNCHANGED <<last_measured, last_drops, handled_size, send_failed>>

\* RedrawRequested is emitted for a window whose redraw was requested, and only then.
NoRedrawRequested ==
    /\ pc' = "RedrawEventsCleared"
    /\ UNCHANGED <<redraw_pending, history>>

\* lib.rs 154: the guard holds and the arm calls redraw().
RedrawRequestedTick ==
    /\ pc = "RedrawRequested"
    /\ RedrawOnRequested(windows)
    /\ IF redraw_pending
       THEN redraw_pending' = FALSE /\ TickBegin("RedrawRequested")
       ELSE NoRedrawRequested
    /\ UNCHANGED <<fixed, program, channels, threads>>

\* lib.rs 154 and 168: the guard fails and the `_` arm is taken.
RedrawRequestedIgnored ==
    /\ pc = "RedrawRequested"
    /\ ~RedrawOnRequested(windows)
    /\ IF redraw_pending
       THEN /\ redraw_pending' = FALSE
            /\ effects' = <<"RedrawRequested">>
            /\ pc' = "RedrawEventsCleared"
            /\ UNCHANGED <<tick, last_measured, last_drops, handled_size, iter,
                           send_failed, tick_since_send>>
       ELSE NoRedrawRequested
    /\ UNCHANGED <<fixed, program, channels, threads>>

\* lib.rs 153: the guard holds and the arm calls redraw().
RedrawEventsClearedTick ==
    /\ pc = "RedrawEventsCleared"
    /\ RedrawOnCleared(windows)
    /\ TickBegin("RedrawEventsCleared")
    /\ UNCHANGED <<fixed, program, channels, redraw_pending, threads>>

\* lib.rs 153 and 168: the guard fails and the `_` arm is taken.
RedrawEventsClearedIgnored ==
    /\ pc = "RedrawEventsCleared"
    /\ ~RedrawOnCleared(windows)
    /\ effects' = <<"RedrawEventsCleared">>
    /\ pc' = "Idle"
    /\ UNCHANGED <<fixed, program, channels, redraw_pending, threads, tick,
                   last_measured, last_drops, handled_size, iter, send_failed,
                   tick_since_send>>

\* lib.rs 81-82: get_current_frame returns a frame.
TickAcquireOk ==
    /\ pc = "tick_acquire"
    /\ pc' = "tick_update"
    /\ effects' = Append(effects, "get_current_frame")
    /\ tick' = [tick EXCEPT !.stage = "acquired"]
    /\ output_frames' = output_frames + 1
    /\ UNCHANGED <<windows, clock, program, channels, redraw_pending, threads,
                   last_measured, last_drops, handled_size, iter, send_failed,
                   tick_since_send>>

\* lib.rs 83-86: get_current_frame fails; the closure logs and returns.
TickAcquireDropped ==
    /\ pc = "tick_acquire"
    /\ pc' = AfterTick
    /\ effects' = effects \o <<"get_current_frame">> \o DroppedCalls
    /\ redraw_pending' = (redraw_pending \/ Has(DroppedCalls, "request_redraw"))
    /\ tick' = [tick EXCEPT !.stage = "dropped"]
    /\ previous_frame_time' = DroppedFrameTime(previous_frame_time)
    /\ last_drops' = Min(last_drops + 1, 2)
    /\ UNCHANGED <<fixed, control_flow, sc_desc, swap_chain, channels, threads,
                   last_measured, handled_size, iter, send_failed, tick_since_send>>

\* lib.rs 89-110: the frame is built, the application updated, the frame time stored.
TickUpdate(quit, needs_repaint, window_size, frame_time) ==
    /\ pc = "tick_update"
    /\ pc' = "tick_submit"
    /\ effects' = Append(effects, "update")
    /\ tick' = [tick EXCEPT !.stage = "updated",
                            !.cpu_usage = CpuUsage(previous_frame_time, frame_time),
                            !.frame_time = Some(frame_time),
                            !.quit = quit,
                            !.needs_repaint = needs_repaint,
                            !.window_size = window_size]
    /\ previous_frame_time' = MeasuredFrameTime(previous_frame_time, frame_time)
    /\ UNCHANGED <<fixed, control_flow, sc_desc, swap_chain, channels,
                   redraw_pending, threads, last_measured, last_drops, handled_size,
                   iter, send_failed, tick_since_send>>

\* lib.rs 111-149: the commands are submitted, the window resized on request, the
\* redraw requested and the directive written.
TickSubmit ==
    /\ pc = "tick_submit"
    /\ pc' = AfterTick
    /\ effects' = effects \o SubmitCalls(tick.quit, tick.needs_repaint, tick.window_size)
    /\ redraw_pending' =
           (redraw_pending \/ TickRequestsRedraw(tick.quit, tick.needs_repaint))
    /\ control_flow' = Directive(tick.quit, tick.needs_repaint)
    /\ tick' = [tick EXCEPT !.stage = "done", !.directive = Some(control_flow')]
    /\ last_measured' = tick.frame_time
    /\ last_drops' = 0
    /\ output_frames' = FrameReleased(output_frames)
    /\ UNCHANGED <<windows, clock, sc_desc, swap_chain, previous_frame_time, channels,
                   threads, handled_size, iter, send_failed, tick_since_send>>

\* Exit has been written: LoopDestroyed is delivered (`_` arm) and the loop is gone,
\* and with it the events that were not dispatched.
LoopDestroyed ==
    /\ pc = "Idle"
    /\ control_flow = "Exit"
    /\ pc' = "Terminated"
    /\ queue' = <<>>
    /\ user_events' = 0
    /\ effects' = <<"LoopDestroyed">>
    /\ tick' = NoTick
    /\ iter' = NoIteration
    /\ UNCHANGED <<fixed, program, redraw_pending, threads, last_measured,
                   last_drops, handled_size, send_failed, tick_since_send>>

----------------------------------------------------------------------------
\* What the application may ask for in AppOutput.window_size.
WindowSizes == {None, Some(<<1024, 768>>)}

Next ==
    \/ \E t \in Threads : RequestRepaintCall(t)
    \/ \E t \in Threads : RequestRepaintLock(t)
    \/ \E t \in Threads : RequestRepaintSend(t)
    \/ \E size \in Sizes : NativeResized(size)
    \/ NativeOther
    \/ NewEvents
    \/ HandleResized
    \/ HandleUserEvent
    \/ HandleOther
    \/ MainEventsCleared
    \/ RedrawRequestedTick
    \/ RedrawRequestedIgnored
    \/ RedrawEventsClearedTick
    \/ RedrawEventsClearedIgnored
    \/ TickAcquireOk
    \/ TickAcquireDropped
    \/ \E quit \in BOOLEAN, needs_repaint \in BOOLEAN, window_size \in WindowSizes,
          frame_time \in FrameTimes :
          TickUpdate(quit, needs_repaint, window_size, frame_time)
    \/ TickSubmit
    \/ LoopDestroyed

Spec == Init /\ [][Next]_vars

\* The steps of the loop thread: winit's run never returns and dispatches whatever is
\* due, and every handler returns.  No step of another thread or of the windowing
\* system is assumed to happen.
LoopStep ==
    \/ NewEvents
    \/ HandleResized
    \/ HandleUserEvent
    \/ HandleOther
    \/ MainEventsCleared
    \/ RedrawRequestedTick
    \/ RedrawRequestedIgnored
    \/ RedrawEventsClearedTick
    \/ RedrawEventsClearedIgnored
    \/ TickAcquireOk
    \/ TickAcquireDropped
    \/ \E quit \in BOOLEAN, needs_repaint \in BOOLEAN, window_size \in WindowSizes,
          frame_time \in FrameTimes :
          TickUpdate(quit, needs_repaint, window_size, frame_time)
    \/ TickSubmit
    \/ LoopDestroyed

FairSpec == Spec /\ WF_vars(LoopStep)

----------------------------------------------------------------------------
\* The readings of the clock: seconds_since_midnight called again and again, the
\* time of day having advanced by d nanoseconds since the call before.

ReadClock(d) ==
    /\ clock.readings < MaxReadings
    /\ clock' = [time |-> Later(clock.time, d),
                 reading |-> SecondsSinceMidnight(Later(clock.time, d)),
                 previous |-> Some(clock.reading),
                 midnight_passed |-> Later(clock.time, d).secs < clock.time.secs,
                 readings |-> clock.readings + 1]
    /\ UNCHANGED <<windows, output_frames, pc, program, channels, redraw_pending,
                   threads, history>>

ClockInit == LoopInit /\ \E time \in StartTimes : clock = FirstReading(time)

ClockNext == \E d \in Elapsed : ReadClock(d)

ClockSpec == ClockInit /\ [][ClockNext]_vars

----------------------------------------------------------------------------
\* Properties.

\* The state right after a tick's submit: `effects` is that tick's list of calls.
TickJustCompleted ==
    tick.stage = "done" /\ Len(effects) > 0 /\ effects[Len(effects)] = "control_flow"

SurfaceSize == <<sc_desc.width, sc_desc.height>>

\* C1: at the moment a tick's acquisition succeeds, the stored surface configuration,
\* and the swap chain the frame is acquired from, have the size carried by the most
\* recently handled Resized event, or the window's initial size if none was handled.
C1_AcquiredFromCurrentSize ==
    tick.stage = "acquired" =>
        /\ SurfaceSize = handled_size
        /\ <<swap_chain.width, swap_chain.height>> = handled_size

\* The first tick acquires from a 1024x768 surface after a Resized(1024, 768).
C1_Witness ==
    /\ tick.stage = "acquired"
    /\ last_measured = None
    /\ last_drops = 0
    /\ handled_size = <<1024, 768>>
    /\ handled_size # InitialSize

\* C2: a completed tick whose output has quit writes Exit, whatever needs_repaint is.
C2_QuitYieldsExit ==
    (TickJustCompleted /\ tick.quit) =>
        (tick.directive = Some("Exit") /\ control_flow = "Exit")

C2_Witness ==
    TickJustCompleted /\ tick.quit /\ tick.needs_repaint /\ control_flow = "Exit"

\* C3 as stated: a completed tick whose output has needs_repaint writes Poll and
\* requests a redraw, for every output.
C3_RepaintAlwaysPolls ==
    (TickJustCompleted /\ tick.needs_repaint) =>
        (tick.directive = Some("Poll") /\ Has(effects, "request_redraw"))

\* C3, amended: a completed tick whose output has needs_repaint and not quit writes
\* Poll and requests a redraw.
C3_RepaintPollsUnlessQuit ==
    (TickJustCompleted /\ tick.needs_repaint /\ ~tick.quit) =>
        /\ tick.directive = Some("Poll")
        /\ control_flow = "Poll"
        /\ Has(effects, "request_redraw")
        /\ redraw_pending

C3_Witness ==
    /\ TickJustCompleted
    /\ tick.needs_repaint
    /\ ~tick.quit
    /\ Has(effects, "request_redraw")
    /\ control_flow = "Poll"

\* C4: a loop blocked under Wait with nothing queued is woken by a single
\* request_repaint, and the iteration so begun runs exactly one tick.
C4_LoneWakeOneTick ==
    /\ (pc = "Idle" /\ control_flow = "Wait" /\ queue = <<>> /\ user_events = 1)
           => ENABLED NewEvents
    /\ iter.lone_wake => iter.ticks <= 1
    /\ (iter.lone_wake /\ pc = "Idle") => iter.ticks = 1

C4_Witness ==
    iter.lone_wake /\ pc = "Idle" /\ iter.ticks = 1 /\ tick.stage = "done"

\* C5: a completed tick that observed quit leaves Exit in control_flow; from then on
\* the directive stays Exit, no tick begins, no event is dispatched, and the loop can
\* only proceed to its end.
AfterQuit == {"RedrawEventsCleared", "Idle", "Terminated"}

C5_NoTickAfterQuit ==
    [][/\ (tick'.stage = "done" /\ tick'.quit) => control_flow' = "Exit"
       /\ control_flow = "Exit" =>
              /\ control_flow' = "Exit"
              /\ pc \in AfterQuit /\ pc' \in AfterQuit
              /\ pc = "Terminated" => pc' = "Terminated"
              /\ tick'.stage \in {"done", "none"}
              /\ iter'.ticks <= iter.ticks
              /\ pc # "Terminated" =>
                     ENABLED (LoopDestroyed \/ RedrawEventsClearedIgnored)]_vars

C5_Witness ==
    pc = "Terminated" /\ control_flow = "Exit"

\* C6: a dropped tick leaves the directive as it was and the loop running; the tick
\* that follows exactly one dropped tick is given the frame time measured by the
\* last completed tick before the drop.
C6_DropKeepsFrameTime ==
    /\ tick.stage = "dropped" =>
           /\ control_flow = tick.cf_start
           /\ control_flow # "Exit"
           /\ pc # "Terminated"
    /\ (tick.stage \in {"updated", "done"} /\ tick.drops_before = 1) =>
           tick.cpu_usage = tick.measured_before

C6_Witness ==
    /\ tick.stage = "done"
    /\ tick.drops_before = 1
    /\ tick.measured_before # None
    /\ tick.cpu_usage = tick.measured_before
    /\ tick.frame_time # tick.measured_before

\* C7: the mutex is held only by a thread that is about to send and can; a thread
\* waiting for a free mutex can take it; and once the loop is back at its wait with
\* every sent wake dispatched, a tick has begun after the last send.
C7_CallsReturnAndWake ==
    /\ mutex # 0 => (tpc[mutex] = "send" /\ ENABLED RequestRepaintSend(mutex))
    /\ \A t \in Threads : tpc[t] = "send" => mutex = t
    /\ \A t \in Threads : (tpc[t] = "lock" /\ mutex = 0) => ENABLED RequestRepaintLock(t)
    /\ (pc = "Idle" /\ user_events = 0) => tick_since_send

\* Two wakes that no tick has followed yet are pending while the loop dispatches.
C7_Witness ==
    /\ pc = "Events"
    /\ user_events = 2
    /\ ~tick_since_send

\* C8: once the loop has terminated, a step (which can only be one of
\* request_repaint) changes nothing but the caller's position and the mutex, queues
\* nothing, and the send returns to the caller.
C8_SendAfterExitIsSilent ==
    [][pc = "Terminated" =>
          /\ UNCHANGED <<pc, program, channels, redraw_pending, loop_history,
                         tick_since_send>>
          /\ \A t \in Threads :
                 /\ tpc'[t] \in {"idle", "lock", "send"}
                 /\ tpc[t] = "send" => tpc'[t] \in {"send", "idle"}]_vars

C8_Witness ==
    /\ pc = "Terminated"
    /\ send_failed
    /\ user_events = 0
    /\ \A t \in Threads : tpc[t] = "idle"

\* C9: the cpu_usage given to the application in a completed tick is the frame time
\* measured by the completed tick before it, and None in the first completed tick.
C9_FrameTimeLagsOneTick ==
    tick.stage \in {"updated", "done"} =>
        /\ tick.cpu_usage = tick.measured_before
        /\ previous_frame_time = tick.frame_time
        /\ tick.frame_time # None

C9_Witness ==
    /\ tick.stage = "done"
    /\ tick.cpu_usage # None
    /\ tick.cpu_usage # tick.frame_time
    /\ tick.drops_before = 0

\* C10: a completed tick whose output has neither quit nor needs_repaint writes Wait
\* and requests no redraw; the loop then waits until an event or a wake arrives.
C10_IdleTickWaits ==
    /\ (TickJustCompleted /\ ~tick.quit /\ ~tick.needs_repaint) =>
           /\ tick.directive = Some("Wait")
           /\ control_flow = "Wait"
           /\ ~Has(effects, "request_redraw")
    /\ (pc = "Idle" /\ tick.stage = "done" /\ ~tick.quit /\ ~tick.needs_repaint) =>
           (ENABLED NewEvents <=> (queue # <<>> \/ user_events > 0))

C10_Witness ==
    /\ pc = "Idle"
    /\ tick.stage = "done"
    /\ ~tick.quit
    /\ ~tick.needs_repaint
    /\ control_flow = "Wait"
    /\ queue = <<>>
    /\ user_events = 0

\* C11: a reading is the whole seconds of the time of day plus its nanoseconds times
\* 1e-9; it lies in [0, 86400); it is not below the reading before it unless midnight
\* has passed in between; and the reading that follows one in the day's last second,
\* midnight having passed less than a second after it, is below 1.
C11_ReadingIsTimeOfDay ==
    /\ clock.reading = [whole |-> clock.time.secs, nanos |-> clock.time.frac]
    /\ LessEq([whole |-> 0, nanos |-> 0], clock.reading)
    /\ clock.reading.whole < SecondsPerDay
    /\ clock.reading.nanos < NanosPerSecond
    /\ (clock.previous # None /\ ~clock.midnight_passed) =>
           LessEq(clock.previous[1], clock.reading)
    /\ (clock.previous # None /\ clock.midnight_passed) =>
           /\ clock.previous[1].whole = SecondsPerDay - 1
           /\ clock.reading.whole < 1

\* A reading of 86399.999999999 is followed, a nanosecond later, by one of 0.
C11_Witness ==
    /\ clock.previous = Some([whole |-> SecondsPerDay - 1, nanos |-> NanosPerSecond - 1])
    /\ clock.midnight_passed
    /\ clock.reading = [whole |-> 0, nanos |-> 0]

\* C12 as stated: after a tick aborted by a dropped frame the loop has not ended and
\* goes on by itself to the iteration that attempts the next tick, whatever the
\* directive is.
C12_DroppedTickRetried ==
    (tick.stage = "dropped" /\ pc = "Idle") =>
        (Alive /\ control_flow # "Exit" /\ ENABLED NewEvents)

\* C13: a tick aborted by a dropped frame advances the platform's time, tries the
\* acquisition, logs, and does nothing else: from its beginning to its return the
\* directive, the descriptor, the swap chain and previous_frame_time keep their
\* values, and the abort asks for no redraw and leaves the queues as they are.
C13_DroppedTickChangesNothing ==
    [][/\ (tick'.stage = "acquire" /\ tick.stage # "acquire") =>
              /\ UNCHANGED <<program, output_frames, channels>>
              /\ effects' = <<tick'.event, "update_time">>
       /\ (tick'.stage = "dropped" /\ tick.stage # "dropped") =>
              /\ tick.stage = "acquire"
              /\ UNCHANGED <<program, output_frames, channels, redraw_pending>>
              /\ effects' = <<tick.event, "update_time", "get_current_frame", "eprintln">>
              /\ pc' # "Terminated"]_vars

\* A tick is dropped after an earlier one has completed and written Wait.
C13_Witness ==
    /\ tick.stage = "dropped"
    /\ effects = <<tick.event, "update_time", "get_current_frame", "eprintln">>
    /\ previous_frame_time # None
    /\ control_flow = "Wait"

\* The positions of the loop thread inside the redraw closure after the acquisition.
Rendering == {"tick_update", "tick_submit"}

IsPrefix(a, b) == Len(a) <= Len(b) /\ SubSeq(b, 1, Len(a)) = a

\* C14: at most one acquired frame is outstanding, and only while the one tick is
\* between its acquisition and its submit; during that time no event is dispatched,
\* so no handler runs: the queues lose nothing, the descriptor and the swap chain
\* stay, and the calls recorded are those of the tick, even as wakes are sent.
C14_OneTickAtATime ==
    [][/\ output_frames' <= 1
       /\ output_frames' = 1 <=> pc' \in Rendering
       /\ pc' \in Rendering <=> tick'.stage \in {"acquired", "updated"}
       /\ pc \in Rendering =>
              /\ queue' = queue
              /\ user_events' >= user_events
              /\ UNCHANGED <<sc_desc, swap_chain, iter>>
              /\ IsPrefix(effects, effects')
              /\ effects'[1] = tick.event
              /\ tick'.stage \in {"acquired", "updated", "done"}]_vars

\* A wake is sent, and not yet followed by a tick, while the acquired frame awaits
\* its submit.
C14_Witness ==
    /\ pc = "tick_submit"
    /\ output_frames = 1
    /\ user_events > 0
    /\ ~tick_since_send

\* C15 as stated: a tick that has begun and whose closure has returned has reached
\* the submit and written the directive.
C15_BegunTickCompletes ==
    (tick.stage # "none" /\ pc \notin ({"tick_acquire"} \cup Rendering)) =>
        (tick.stage = "done" /\ Has(effects, "submit"))

\* C15, amended: a tick whose acquisition has succeeded goes on, step by step and
\* whatever is sent or pending meanwhile, to its submit and its directive.
C15_AcquiredTickCompletes ==
    /\ [][/\ tick.stage = "acquired" => tick'.stage \in {"acquired", "updated"}
          /\ tick.stage = "updated" => tick'.stage \in {"updated", "done"}]_vars
    /\ (tick.stage = "acquired") ~>
           (TickJustCompleted /\ Has(effects, "submit") /\ tick.directive # None)

\* A tick that observed quit completes while a wake is pending.
C15_Witness ==
    /\ TickJustCompleted
    /\ Has(effects, "submit")
    /\ tick.quit
    /\ user_events > 0

\* C16: a tick is begun by RedrawEventsCleared on Windows and by RedrawRequested
\* elsewhere, never by the other; no iteration begins two ticks, and an iteration
\* that has ended has begun one.
C16_OneTickPerIteration ==
    /\ tick.stage # "none" =>
           tick.event = IF windows THEN "RedrawEventsCleared" ELSE "RedrawRequested"
    /\ iter.ticks <= 1
    /\ (pc = "Idle" /\ effects # <<>>) => iter.ticks = 1

\* On Windows an iteration has ended, its one tick begun by RedrawEventsCleared.
C16_Witness ==
    /\ windows
    /\ pc = "Idle"
    /\ iter.ticks = 1
    /\ tick.stage = "done"
    /\ tick.event = "RedrawEventsCleared"

\* C17: the handling of a wake and that of MainEventsCleared forward the event and
\* then request one redraw, and do nothing else: no tick, and the directive, the
\* descriptor, the swap chain and previous_frame_time stay.
C17_WakeAndClearedAlike ==
    [][(pc = "Events" /\ (user_events' < user_events \/ pc' # "Events")) =>
          /\ effects' = <<IF pc' = "Events" THEN "UserEvent" ELSE "MainEventsCleared",
                          "handle_event", "request_redraw">>
          /\ redraw_pending'
          /\ UNCHANGED <<program, output_frames, tick, iter, queue>>]_vars

\* A wake is handled while the directive is Wait.
C17_Witness ==
    /\ effects = <<"UserEvent", "handle_event", "request_redraw">>
    /\ redraw_pending
    /\ control_flow = "Wait"
    /\ tick.stage = "none"

\* C18: a completed tick calls set_inner_size if and only if its output carries a
\* window size, once, after the submit and before the directive is written, whatever
\* quit and needs_repaint are; the descriptor and the swap chain keep the size of
\* the last handled Resized event.
C18_ResizeOnRequestOnly ==
    TickJustCompleted =>
        /\ Has(effects, "set_inner_size") <=> tick.window_size # None
        /\ \A i \in 1..Len(effects) :
               effects[i] = "set_inner_size" =>
                   /\ effects[i - 1] = "submit"
                   /\ i < Len(effects)
                   /\ \A j \in 1..Len(effects) : effects[j] = "set_inner_size" => j = i
        /\ SurfaceSize = handled_size
        /\ swap_chain = CreateSwapChain(sc_desc)

\* A tick that observed quit has asked for 1024x768; the surface is still 800x600.
C18_Witness ==
    /\ TickJustCompleted
    /\ tick.quit
    /\ tick.window_size = Some(<<1024, 768>>)
    /\ Has(effects, "set_inner_size")
    /\ SurfaceSize = <<800, 600>>

\* The step that handles a Resized event.
ResizedHandled ==
    pc = "Events" /\ queue # <<>> /\ Head(queue).type = "Resized" /\ queue' = Tail(queue)

\* C19: the descriptor's usage, format and present mode are those of the setup in
\* every state; the descriptor and the swap chain change, and create_swap_chain is
\* called, only when a Resized event is handled; that handling sets the width and
\* the height to the event's, creates the swap chain once from the result, and
\* changes nothing else.
C19_ResizedChangesSizeOnly ==
    [][/\ sc_desc'.usage = "RENDER_ATTACHMENT"
       /\ sc_desc'.format = "Rgba8UnormSrgb"
       /\ sc_desc'.present_mode = "Mailbox"
       /\ swap_chain' = CreateSwapChain(sc_desc')
       /\ (sc_desc' # sc_desc \/ swap_chain' # swap_chain) => ResizedHandled
       /\ Has(effects', "create_swap_chain") => effects'[1] = "Resized"
       /\ ResizedHandled =>
              /\ sc_desc' = [sc_desc EXCEPT !.width = Head(queue).size[1],
                                            !.height = Head(queue).size[2]]
              /\ effects' = <<"Resized", "create_swap_chain">>
              /\ UNCHANGED <<pc, control_flow, previous_frame_time, redraw_pending,
                             output_frames, tick, iter, user_events>>]_vars

\* A Resized(1024, 768) is handled after a tick has completed.
C19_Witness ==
    /\ effects = <<"Resized", "create_swap_chain">>
    /\ SurfaceSize = <<1024, 768>>
    /\ swap_chain = sc_desc
    /\ sc_desc.present_mode = "Mailbox"
    /\ last_measured # None

\* The step that handles an event of any other kind.
OtherHandled ==
    pc = "Events" /\ queue # <<>> /\ Head(queue).type = "Other" /\ queue' = Tail(queue)

\* C20: handle_event is called for MainEventsCleared and for the wake only; the
\* handling of any other event calls nothing, begins no tick, requests no redraw and
\* leaves the directive, the descriptor, the swap chain and previous_frame_time.
C20_OnlyWakeAndClearedForwarded ==
    [][/\ Has(effects', "handle_event") =>
              effects'[1] \in {"MainEventsCleared", "UserEvent"}
       /\ OtherHandled =>
              /\ effects' = <<"Other">>
              /\ UNCHANGED <<pc, program, redraw_pending, output_frames, tick, iter,
                             user_events>>]_vars

\* Another event is handled while the directive is Wait and no redraw is requested.
C20_Witness ==
    /\ effects = <<"Other">>
    /\ pc = "Events"
    /\ control_flow = "Wait"
    /\ ~redraw_pending

====
